---------------------------- MODULE Spec2Model ----------------------------
(***************************************************************************)
(* DFU Binary Extractor (dfu-bin-extractor.py): the DFUParser class, the   *)
(* output writer save_binaries and the command-line run main().            *)
(*                                                                         *)
(* A byte buffer is a sequence of integers 0..255.  The parser's methods   *)
(* are operators over the buffer, computed as the Python code computes     *)
(* them (clamping slices, struct.unpack's exact-length requirement, the    *)
(* order of the checks).  Outcomes are records: kind "ok" with a value, or *)
(* kind "error" with the exception raised.                                 *)
(***************************************************************************)
EXTENDS Integers, Sequences, FiniteSets, TLC

VARIABLES
    mode,             \* "api": the class is driven by a caller; "cli": main() runs
    image,            \* history: the layout the input file was written from
    dfu_data,         \* DFUParser.dfu_data: the bytes of the input file
    targets,          \* DFUParser.targets
    suffix_result,    \* outcome of the last parse_suffix() call, or NotCalled
    prefix_result,    \* outcome of the last parse_prefix() call, or NotCalled
    extract_results,  \* outcomes of the extract() calls made so far, in order
    pc,               \* main(): position in the run
    info,             \* main(): args.info
    extracted,        \* main(): the local `targets` handed to save_binaries
    files,            \* the output files written so far, in order
    exit_status       \* main(): the value returned to sys.exit, -1 while running

vars == << mode, image, dfu_data, targets, suffix_result, prefix_result,
           extract_results, pc, info, extracted, files, exit_status >>

----------------------------------------------------------------------------
(* Bounds of the model *)

MaxTargets == 2

MaxElements == 2

MaxBody == 12

MaxCalls == 2

----------------------------------------------------------------------------
(* Program constants *)

DFU_SUFFIX_LENGTH == 16

DFU_PREFIX_LENGTH == 11

TARGET_HEADER_LENGTH == 274

DfuSeSignature == << 68, 102, 117, 83, 101 >>          \* b"DfuSe"

TargetSignature == << 84, 97, 114, 103, 101, 116 >>    \* b"Target"

UfdSignature == << 85, 70, 68 >>                       \* b"UFD"

\* The exceptions the code raises.  The three ValueError messages are named by
\* the error kind they stand for.
TooSmall == "TooSmall"                  \* ValueError("File too small to contain DFU suffix/prefix")

InvalidSignature == "InvalidSignature"  \* ValueError("Invalid DFU signature")

InvalidTargetSignature == "InvalidTargetSignature"  \* ValueError("Invalid target signature at offset N")

StructError == "struct.error"           \* struct.unpack on a slice that is not 4 bytes

IndexError == "IndexError"              \* target_prefix[6] on a 6-byte slice

NoOffset == 0 - 1

----------------------------------------------------------------------------
(* Python primitives *)

Min(a, b) == IF a < b THEN a ELSE b

Max(a, b) == IF a > b THEN a ELSE b

\* A slice bound, normalised as Python does: a negative bound counts from the
\* end, and every bound is clamped into 0..n.
SliceIndex(i, n) == IF i < 0 THEN Max(i + n, 0) ELSE Min(i, n)

\* s[a:b]
Slice(s, a, b) == SubSeq(s, SliceIndex(a, Len(s)) + 1, SliceIndex(b, Len(s)))

\* s[a:]
SliceFrom(s, a) == SubSeq(s, SliceIndex(a, Len(s)) + 1, Len(s))

\* struct.unpack("<H", b)[0], for a 2-byte b
UnpackU16(b) == b[1] + 256 * b[2]

\* struct.unpack("<I", b)[0], for a 4-byte b
UnpackU32(b) == b[1] + 256 * b[2] + 65536 * b[3] + 16777216 * b[4]

Ok(v) == [kind |-> "ok", value |-> v, error |-> "", offset |-> NoOffset]

Raise(e, off) == [kind |-> "error", value |-> << >>, error |-> e, offset |-> off]

NotCalled == [kind |-> "none", value |-> << >>, error |-> "", offset |-> NoOffset]

\* parse_prefix's None: the prefix is absent
Absent == [kind |-> "absent", value |-> << >>, error |-> "", offset |-> NoOffset]

Pair(addr, data) == [address |-> addr, payload |-> data]

----------------------------------------------------------------------------
(* DFUParser *)

\* The fields of the suffix, read from the 16 bytes suffix_data.
suffix_fields(suffix_data) ==
    [ bcdDevice      |-> UnpackU16(Slice(suffix_data, 0, 2)),
      idProduct      |-> UnpackU16(Slice(suffix_data, 2, 4)),
      idVendor       |-> UnpackU16(Slice(suffix_data, 4, 6)),
      bcdDFU         |-> UnpackU16(Slice(suffix_data, 6, 8)),
      ucDfuSignature |-> Slice(suffix_data, 8, 11),
      bLength        |-> suffix_data[12],
      dwCRC          |-> UnpackU32(Slice(suffix_data, 12, 16)) ]

\* A variant that takes the first 16 bytes of the buffer for the suffix.
parse_suffix_leading(data) ==
    IF Len(data) < DFU_SUFFIX_LENGTH
    THEN Raise(TooSmall, NoOffset)
    ELSE LET suffix == suffix_fields(Slice(data, 0, DFU_SUFFIX_LENGTH))
         IN  IF suffix.ucDfuSignature # UfdSignature
             THEN Raise(InvalidSignature, NoOffset)
             ELSE Ok(suffix)

parse_suffix(data) ==
    IF Len(data) < DFU_SUFFIX_LENGTH
    THEN Raise(TooSmall, NoOffset)
    ELSE LET suffix_data == SliceFrom(data, 0 - DFU_SUFFIX_LENGTH)
             suffix == suffix_fields(suffix_data)
         IN  IF suffix.ucDfuSignature # UfdSignature
             THEN Raise(InvalidSignature, NoOffset)
             ELSE Ok(suffix)

\* The fields of the prefix, read from the 11 bytes prefix_data.
prefix_fields(prefix_data) ==
    [ szSignature |-> Slice(prefix_data, 0, 5),
      bVersion    |-> prefix_data[6],
      dwImageSize |-> UnpackU32(Slice(prefix_data, 6, 10)),
      bTargets    |-> prefix_data[11] ]

\* A variant that requires room for the prefix only, not for the suffix too.
parse_prefix_prefix_only(data) ==
    IF Len(data) < DFU_PREFIX_LENGTH
    THEN Raise(TooSmall, NoOffset)
    ELSE LET prefix == prefix_fields(Slice(data, 0, DFU_PREFIX_LENGTH))
         IN  IF prefix.szSignature # DfuSeSignature THEN Absent ELSE Ok(prefix)

parse_prefix(data) ==
    IF Len(data) < DFU_PREFIX_LENGTH + DFU_SUFFIX_LENGTH
    THEN Raise(TooSmall, NoOffset)
    ELSE LET prefix_data == Slice(data, 0, DFU_PREFIX_LENGTH)
             prefix == prefix_fields(prefix_data)
         IN  IF prefix.szSignature # DfuSeSignature
             THEN Absent
             ELSE Ok(prefix)

\* A variant that strips the prefix length instead of the suffix length.
extract_raw_binary_prefix_length(data) == Slice(data, 0, 0 - DFU_PREFIX_LENGTH)

\* A variant that computes the end of the slice as len - 16, which Python reads
\* from the end of the buffer when it is negative.
extract_raw_binary_unclamped(data) == Slice(data, 0, Len(data) - DFU_SUFFIX_LENGTH)

extract_raw_binary(data) == Slice(data, 0, 0 - DFU_SUFFIX_LENGTH)

\* A variant that reads the payload without skipping the 8-byte element header.
element_payload_unskipped(data, offset, element_size) ==
    Slice(data, offset - 8, offset - 8 + element_size)

\* data = self.dfu_data[offset : offset + element_size], after offset += 8
element_payload(data, offset, element_size) == Slice(data, offset, offset + element_size)

\* A variant that reports the offset after the header instead of its start.
target_signature_error_after(offset) ==
    Raise(InvalidTargetSignature, offset + TARGET_HEADER_LENGTH)

\* raise ValueError(f"Invalid target signature at offset {offset}")
target_signature_error(offset) == Raise(InvalidTargetSignature, offset)

\* The inner loop of extract_dfuse_targets: n elements are still to be read at
\* `offset`, `acc` is the list `targets` so far.  The value of an "ok" outcome
\* is the list, and its offset the offset after the last element.
RECURSIVE element_loop(_, _, _, _)
element_loop(data, offset, n, acc) ==
    IF n = 0
    THEN [kind |-> "ok", value |-> acc, error |-> "", offset |-> offset]
    ELSE LET addr_bytes == Slice(data, offset, offset + 4)
             size_bytes == Slice(data, offset + 4, offset + 8)
         IN  IF Len(addr_bytes) # 4 \/ Len(size_bytes) # 4
             THEN Raise(StructError, NoOffset)
             ELSE LET element_addr == UnpackU32(addr_bytes)
                      element_size == UnpackU32(size_bytes)
                      chunk == element_payload(data, offset + 8, element_size)
                  IN  element_loop(data, offset + 8 + element_size, n - 1,
                                   Append(acc, Pair(element_addr, chunk)))

\* The outer loop of extract_dfuse_targets: n targets are still to be read.
RECURSIVE target_loop(_, _, _, _)
target_loop(data, offset, n, acc) ==
    IF n = 0
    THEN [kind |-> "ok", value |-> acc, error |-> "", offset |-> offset]
    ELSE LET target_prefix == Slice(data, offset, offset + TARGET_HEADER_LENGTH)
             signature == Slice(target_prefix, 0, 6)
         IN  IF signature # TargetSignature
             THEN target_signature_error(offset)
             ELSE IF Len(target_prefix) < 7
             THEN Raise(IndexError, NoOffset)
             ELSE IF Len(Slice(target_prefix, 266, 270)) # 4
                     \/ Len(Slice(target_prefix, 270, 274)) # 4
             THEN Raise(StructError, NoOffset)
             ELSE LET nb_elements == UnpackU32(Slice(target_prefix, 270, 274))
                      r == element_loop(data, offset + TARGET_HEADER_LENGTH,
                                        nb_elements, acc)
                  IN  IF r.kind # "ok" THEN r
                      ELSE target_loop(data, r.offset, n - 1, r.value)

\* A variant that treats a prefix that cannot be decoded as no targets.
extract_dfuse_targets_lenient(data) ==
    LET prefix == parse_prefix(data)
    IN  IF prefix.kind # "ok" THEN Ok(<< >>)
        ELSE LET r == target_loop(data, DFU_PREFIX_LENGTH, prefix.value.bTargets, << >>)
             IN  IF r.kind # "ok" THEN r ELSE Ok(r.value)

extract_dfuse_targets(data) ==
    LET prefix == parse_prefix(data)
    IN  IF prefix.kind = "error" THEN prefix
        ELSE IF prefix.kind = "absent" THEN Ok(<< >>)
        ELSE LET r == target_loop(data, DFU_PREFIX_LENGTH, prefix.value.bTargets, << >>)
             IN  IF r.kind # "ok" THEN r ELSE Ok(r.value)

extract(data) ==
    IF Slice(data, 0, 5) = DfuSeSignature
    THEN extract_dfuse_targets(data)
    ELSE Ok(<< Pair(0, extract_raw_binary(data)) >>)

----------------------------------------------------------------------------
(* The input files: DfuSe and plain DFU images, whole, cut short or with a  *)
(* signature byte altered.  Every byte written is below 128, so that any    *)
(* four of them read as a little-endian u32 stay below 2^31.                *)

RECURSIVE Sum(_, _)
Sum(f, n) == IF n = 0 THEN 0 ELSE f[n] + Sum(f, n - 1)

Zeros(n) == [i \in 1..n |-> 0]

PackU16(n) == << n % 256, n \div 256 >>

PackU32(n) == << n % 256, (n \div 256) % 256, (n \div 65536) % 256, n \div 16777216 >>

\* The size, load address and payload of element e of target t (both from 1).
ElementSize(t, e) == (t + 2 * e) % 4

ElementAddress(t, e) == 134217728 + 256 * t + e

ElementPayload(t, e, size) == [k \in 1..size |-> 16 * t + 4 * e + k]

\* A layout is a sequence of targets, each the sequence of its elements' sizes.
Layouts ==
    { [t \in 1..n |-> [e \in 1..counts[t] |-> ElementSize(t, e)]] :
        <<n, counts>> \in { <<n, c>> : n \in 0..MaxTargets, c \in [1..MaxTargets -> 0..MaxElements] } }

\* Bytes of a target record: the 274-byte header and its elements.
TargetLength(sizes) == TARGET_HEADER_LENGTH + Sum([e \in 1..Len(sizes) |-> 8 + sizes[e]], Len(sizes))

\* Offset in the file of target t's header, and of its element e's header.
TargetOffset(layout, t) ==
    DFU_PREFIX_LENGTH + Sum([u \in 1..(t - 1) |-> TargetLength(layout[u])], t - 1)

ElementOffset(layout, t, e) ==
    TargetOffset(layout, t) + TARGET_HEADER_LENGTH
        + Sum([f \in 1..(e - 1) |-> 8 + layout[t][f]], e - 1)

\* Offset of the first byte after the last target.
EndOffset(layout) == TargetOffset(layout, Len(layout) + 1)

RECURSIVE EncodeElements(_, _, _)
EncodeElements(t, sizes, e) ==
    IF e > Len(sizes) THEN << >>
    ELSE PackU32(ElementAddress(t, e)) \o PackU32(sizes[e])
           \o ElementPayload(t, e, sizes[e]) \o EncodeElements(t, sizes, e + 1)

EncodeTarget(t, sizes) ==
    TargetSignature \o << t - 1 >> \o << 1, 0, 0, 0 >> \o << 83, 84 >> \o Zeros(253)
        \o PackU32(TargetLength(sizes) - TARGET_HEADER_LENGTH) \o PackU32(Len(sizes))
        \o EncodeElements(t, sizes, 1)

RECURSIVE EncodeTargets(_, _)
EncodeTargets(layout, t) ==
    IF t > Len(layout) THEN << >>
    ELSE EncodeTarget(t, layout[t]) \o EncodeTargets(layout, t + 1)

EncodePrefix(layout) ==
    DfuSeSignature \o << 1 >> \o PackU32(EndOffset(layout)) \o << Len(layout) >>

\* The 16-byte suffix; `bad` in 1..3 alters that byte of the "UFD" signature.
EncodeSuffix(bad) ==
    PackU16(512) \o PackU16(22336) \o PackU16(1027) \o PackU16(282)
        \o [k \in 1..3 |-> IF k = bad THEN 88 ELSE UfdSignature[k]]
        \o << 16 >> \o PackU32(305419896)

SuffixOf(img) == IF img.suffix < 0 THEN << >> ELSE EncodeSuffix(img.suffix)

WholeBytes(img) ==
    IF img.kind = "dfuse"
    THEN EncodePrefix(img.layout) \o EncodeTargets(img.layout, 1) \o SuffixOf(img)
    ELSE img.body \o SuffixOf(img)

\* The bytes of the file: the whole image, then the altered byte, then the cut.
ImageBytes(img) ==
    LET whole == WholeBytes(img)
        altered == IF img.alter = 0 THEN whole
                   ELSE [whole EXCEPT ![img.alter] = (@ + 1) % 256]
    IN  IF img.cut < 0 THEN altered ELSE SubSeq(altered, 1, Min(img.cut, Len(altered)))

Image(kind, layout, body, suffix, alter, cut) ==
    [kind |-> kind, layout |-> layout, body |-> body, suffix |-> suffix,
     alter |-> alter, cut |-> cut]

\* Where a field of a target header or of an element starts.
FieldStarts(layout) ==
    UNION { { TargetOffset(layout, t) + d : d \in {0, 6, 7, 266, 270, 274} }
              \cup UNION { { ElementOffset(layout, t, e) + d : d \in {0, 4, 8, 8 + layout[t][e]} }
                             : e \in 1..Len(layout[t]) }
            : t \in 1..Len(layout) }

DfuSeImages ==
    UNION { { Image("dfuse", layout, << >>, s, 0, 0 - 1) : s \in {0 - 1, 0, 2} }
              \cup { Image("dfuse", layout, << >>, 0, TargetOffset(layout, t) + k, 0 - 1) :
                       <<t, k>> \in (1..Len(layout)) \X (1..6) }
              \cup { Image("dfuse", layout, << >>, 0, TargetOffset(layout, t) + 1,
                             TargetOffset(layout, t) + d) :
                       <<t, d>> \in (1..Len(layout)) \X {6, 7, DFU_SUFFIX_LENGTH} }
              \cup { Image("dfuse", layout, << >>, 0, 0, c) :
                       c \in (0..(DFU_PREFIX_LENGTH + DFU_SUFFIX_LENGTH))
                                \cup UNION { {b, b + 1} : b \in FieldStarts(layout) } }
            : layout \in Layouts }

FirmwareBody(n) == [k \in 1..n |-> 7 * k]

NearMissBody(n) == [k \in 1..n |-> IF k < 5 THEN DfuSeSignature[k] ELSE 100 + k]

PlainImages ==
    UNION { { Image("plain", << >>, b, s, 0, 0 - 1) : s \in {0 - 1, 0, 1, 2, 3} }
              \cup { Image("plain", << >>, b, 0, 0, c) : c \in 0..(Len(b) + DFU_SUFFIX_LENGTH) }
            : b \in { FirmwareBody(n) : n \in 0..MaxBody } \cup { NearMissBody(MaxBody) } }

Images == DfuSeImages \cup PlainImages

----------------------------------------------------------------------------
(* Initial state: a parser constructed on the bytes of an input file, or    *)
(* main() about to run on that file.                                        *)

Init ==
    /\ mode \in {"api", "cli"}
    /\ image \in Images
    /\ dfu_data = ImageBytes(image)
    /\ targets = << >>
    /\ suffix_result = NotCalled
    /\ prefix_result = NotCalled
    /\ extract_results = << >>
    /\ pc = IF mode = "cli" THEN "read" ELSE "idle"
    /\ info \in IF mode = "cli" THEN BOOLEAN ELSE {FALSE}
    /\ extracted = << >>
    /\ files = << >>
    /\ exit_status = 0 - 1

----------------------------------------------------------------------------
(* A caller drives the parser object: any calls, in any order.              *)

CallParseSuffix ==
    /\ mode = "api"
    /\ suffix_result' = parse_suffix(dfu_data)
    /\ UNCHANGED << mode, image, dfu_data, targets, prefix_result, extract_results,
                    pc, info, extracted, files, exit_status >>

CallParsePrefix ==
    /\ mode = "api"
    /\ prefix_result' = parse_prefix(dfu_data)
    /\ UNCHANGED << mode, image, dfu_data, targets, suffix_result, extract_results,
                    pc, info, extracted, files, exit_status >>

\* A variant in which the list is kept in self.targets instead of a local.
CallExtract_accumulating ==
    /\ mode = "api"
    /\ Len(extract_results) < MaxCalls
    /\ LET r == extract(dfu_data)
       IN  /\ targets' = IF r.kind = "ok" THEN targets \o r.value ELSE targets
           /\ extract_results' = Append(extract_results,
                                        IF r.kind = "ok" THEN Ok(targets') ELSE r)
    /\ UNCHANGED << mode, image, dfu_data, suffix_result, prefix_result,
                    pc, info, extracted, files, exit_status >>

\* extract() builds its list in a local; neither field of the parser is written.
CallExtract ==
    /\ mode = "api"
    /\ Len(extract_results) < MaxCalls
    /\ extract_results' = Append(extract_results, extract(dfu_data))
    /\ UNCHANGED << mode, image, dfu_data, targets, suffix_result, prefix_result,
                    pc, info, extracted, files, exit_status >>

----------------------------------------------------------------------------
(* main(): read the file, show the headers under --info, extract, save.     *)

\* The name of the file written for entry i (from 0) of n: prefix.bin when
\* there is one entry, prefix_i.bin otherwise.
OutputName(i, n) == IF n = 1 THEN << >> ELSE << i >>

\* A variant in which the handler reports the error and falls through to return 0.
MainFail_returns_zero ==
    /\ pc' = "done"
    /\ exit_status' = 0

\* except Exception: report and return 1
MainFail ==
    /\ pc' = "done"
    /\ exit_status' = 1

\* open(args.input).read() succeeds; DFUParser(dfu_data) is constructed
MainRead ==
    /\ mode = "cli" /\ pc = "read"
    /\ pc' = IF info THEN "suffix" ELSE "extract"
    /\ UNCHANGED << mode, image, dfu_data, targets, suffix_result, prefix_result,
                    extract_results, info, extracted, files, exit_status >>

\* open(args.input) raises IOError: return 1
MainReadError ==
    /\ mode = "cli" /\ pc = "read"
    /\ pc' = "done"
    /\ exit_status' = 1
    /\ UNCHANGED << mode, image, dfu_data, targets, suffix_result, prefix_result,
                    extract_results, info, extracted, files >>

MainParseSuffix ==
    /\ mode = "cli" /\ pc = "suffix"
    /\ suffix_result' = parse_suffix(dfu_data)
    /\ IF suffix_result'.kind = "error"
       THEN MainFail
       ELSE pc' = "prefix" /\ UNCHANGED exit_status
    /\ UNCHANGED << mode, image, dfu_data, targets, prefix_result, extract_results,
                    info, extracted, files >>

MainParsePrefix ==
    /\ mode = "cli" /\ pc = "prefix"
    /\ prefix_result' = parse_prefix(dfu_data)
    /\ IF prefix_result'.kind = "error"
       THEN MainFail
       ELSE pc' = "extract" /\ UNCHANGED exit_status
    /\ UNCHANGED << mode, image, dfu_data, targets, suffix_result, extract_results,
                    info, extracted, files >>

MainExtract ==
    /\ mode = "cli" /\ pc = "extract"
    /\ extract_results' = Append(extract_results, extract(dfu_data))
    /\ IF extract_results'[Len(extract_results')].kind = "error"
       THEN MainFail /\ UNCHANGED extracted
       ELSE /\ pc' = "save"
            /\ extracted' = extract_results'[Len(extract_results')].value
            /\ UNCHANGED exit_status
    /\ UNCHANGED << mode, image, dfu_data, targets, suffix_result, prefix_result,
                    info, files >>

\* save_binaries: one open/write per entry of the list, in order
MainSave ==
    /\ mode = "cli" /\ pc = "save"
    /\ Len(files) < Len(extracted)
    /\ files' = Append(files, [name |-> OutputName(Len(files), Len(extracted)),
                                data |-> extracted[Len(files) + 1].payload])
    /\ UNCHANGED << mode, image, dfu_data, targets, suffix_result, prefix_result,
                    extract_results, pc, info, extracted, exit_status >>

\* save_binaries: open(filename, "wb") raises; main's except returns 1
MainSaveError ==
    /\ mode = "cli" /\ pc = "save"
    /\ Len(files) < Len(extracted)
    /\ MainFail
    /\ UNCHANGED << mode, image, dfu_data, targets, suffix_result, prefix_result,
                    extract_results, info, extracted, files >>

\* every entry is saved: return 0
MainReturn ==
    /\ mode = "cli" /\ pc = "save"
    /\ Len(files) = Len(extracted)
    /\ pc' = "done"
    /\ exit_status' = 0
    /\ UNCHANGED << mode, image, dfu_data, targets, suffix_result, prefix_result,
                    extract_results, info, extracted, files >>

Next ==
    \/ CallParseSuffix
    \/ CallParsePrefix
    \/ CallExtract
    \/ MainRead
    \/ MainReadError
    \/ MainParseSuffix
    \/ MainParsePrefix
    \/ MainExtract
    \/ MainSave
    \/ MainSaveError
    \/ MainReturn

Spec == Init /\ [][Next]_vars

----------------------------------------------------------------------------
(* The properties                                                           *)

Length == Len(dfu_data)

\* The first 5 bytes of the buffer are "DfuSe".
StartsWithDfuSe == Length >= 5 /\ SubSeq(dfu_data, 1, 5) = DfuSeSignature

\* The buffer has room for the prefix and the suffix (11 + 16 bytes).
HasPrefixRoom == Length >= 27

Results == { extract_results[i] : i \in 1..Len(extract_results) }

\* The first max(L - 16, 0) bytes of the buffer.
LeadingBytes == SubSeq(dfu_data, 1, IF Length > 16 THEN Length - 16 ELSE 0)

\* The pairs of a layout, from the values its elements were written with.
RECURSIVE WrittenPairs(_, _)
WrittenPairs(layout, t) ==
    IF t > Len(layout) THEN << >>
    ELSE [e \in 1..Len(layout[t]) |->
              Pair(ElementAddress(t, e), ElementPayload(t, e, layout[t][e]))]
           \o WrittenPairs(layout, t + 1)

\* The payloads found in the buffer by the walk's arithmetic: 11, plus 274 per
\* target header, plus 8 + size per element.
RECURSIVE PayloadsAtOffsets(_, _)
PayloadsAtOffsets(layout, t) ==
    IF t > Len(layout) THEN << >>
    ELSE [e \in 1..Len(layout[t]) |->
              SubSeq(dfu_data, ElementOffset(layout, t, e) + 9,
                               ElementOffset(layout, t, e) + 8 + layout[t][e])]
           \o PayloadsAtOffsets(layout, t + 1)

ElementTotal(layout) == Sum([t \in 1..Len(layout) |-> Len(layout[t])], Len(layout))

\* What extract returns for a DfuSe buffer whose walk stays inside the buffer.
WalkedInOrder(r) ==
    /\ r.kind = "ok"
    /\ r.value = WrittenPairs(image.layout, 1)
    /\ [k \in 1..Len(r.value) |-> r.value[k].payload] = PayloadsAtOffsets(image.layout, 1)
    /\ Len(r.value) = ElementTotal(image.layout)

\* A DfuSe buffer in which every target header and element fits.
WellFormedDfuSe ==
    /\ image.kind = "dfuse" /\ image.alter = 0
    /\ StartsWithDfuSe
    /\ Length >= EndOffset(image.layout)

\* A DfuSe buffer whose prefix decodes and in which some read of the walk
\* extends past the end of the buffer.
TruncatedDfuSe ==
    /\ image.kind = "dfuse" /\ image.alter = 0
    /\ StartsWithDfuSe /\ HasPrefixRoom
    /\ Length < EndOffset(image.layout)

\* The 6 bytes at the start of target header t are in the buffer and are not
\* "Target"; all that precedes that header is as written.
BadTargetSignature(t) ==
    /\ image.kind = "dfuse" /\ t \in 1..Len(image.layout)
    /\ image.alter > TargetOffset(image.layout, t)
    /\ Length >= TargetOffset(image.layout, t) + 6
    /\ SubSeq(dfu_data, TargetOffset(image.layout, t) + 1,
                        TargetOffset(image.layout, t) + 6) # TargetSignature

\* C1: for a buffer of length L >= 16 that does not start with "DfuSe", extract
\* returns exactly one pair: address 0 and the first L - 16 bytes of the buffer.
C1_PlainExtract ==
    (Length >= 16 /\ ~StartsWithDfuSe) =>
        \A r \in Results : r = Ok(<< Pair(0, SubSeq(dfu_data, 1, Length - 16)) >>)

C1_Witness ==
    /\ Length > 16 /\ ~StartsWithDfuSe
    /\ Len(extract_results) > 0
    /\ extract_results[1] = Ok(<< Pair(0, SubSeq(dfu_data, 1, Length - 16)) >>)

\* C2 as stated: for every DfuSe buffer in which every target header and
\* element fits, extract returns one pair per element, in file order.
C2_WellFormedWalk ==
    WellFormedDfuSe => \A r \in Results : WalkedInOrder(r)

\* C2 as amended: the same, for buffers of at least 27 bytes.
C2_WellFormedWalkWithRoom ==
    (WellFormedDfuSe /\ HasPrefixRoom) => \A r \in Results : WalkedInOrder(r)

C2_Witness ==
    /\ WellFormedDfuSe /\ HasPrefixRoom
    /\ Len(image.layout) = 2 /\ ElementTotal(image.layout) >= 3
    /\ Len(extract_results) > 0
    /\ WalkedInOrder(extract_results[1])

\* C3: in a DfuSe walk, a read that would extend past the end of the buffer
\* makes extract fail: it never returns, so never with a payload shorter than
\* the element's declared size.  (The claim names the failure TruncatedData;
\* the code has no such error, and any exception is taken for the failure.)
C3_TruncationFails ==
    TruncatedDfuSe => \A r \in Results : r.kind = "error"

\* C4 as stated: a target header whose first 6 bytes differ from "Target", after
\* well-formed targets, makes extract fail with InvalidTargetSignature carrying
\* that header's offset, and no pairs.
C4_BadSignature ==
    \A t \in 1..Len(image.layout) :
        BadTargetSignature(t) =>
            \A r \in Results :
                r = Raise(InvalidTargetSignature, TargetOffset(image.layout, t))

\* C4 as amended: the same, for buffers of at least 27 bytes.
C4_BadSignatureWithRoom ==
    \A t \in 1..Len(image.layout) :
        (BadTargetSignature(t) /\ HasPrefixRoom) =>
            \A r \in Results :
                r = Raise(InvalidTargetSignature, TargetOffset(image.layout, t))

C4_Witness ==
    /\ BadTargetSignature(2) /\ HasPrefixRoom
    /\ Len(image.layout[1]) > 0
    /\ Len(extract_results) > 0
    /\ extract_results[1] = Raise(InvalidTargetSignature, TargetOffset(image.layout, 2))

\* The suffix an image is written with (EncodeSuffix(0)).
WrittenSuffix ==
    [ bcdDevice |-> 512, idProduct |-> 22336, idVendor |-> 1027, bcdDFU |-> 282,
      ucDfuSignature |-> UfdSignature, bLength |-> 16, dwCRC |-> 305419896 ]

\* C5: parse_suffix fails with TooSmall below 16 bytes; from 16 bytes on it
\* fails with InvalidSignature exactly when bytes 8..10 of the last 16 are not
\* "UFD", and returns the suffix record otherwise.
C5_ParseSuffix ==
    suffix_result.kind # "none" =>
        IF Length < 16 THEN suffix_result = Raise(TooSmall, NoOffset)
        ELSE IF SubSeq(dfu_data, Length - 7, Length - 5) # UfdSignature
        THEN suffix_result = Raise(InvalidSignature, NoOffset)
        ELSE /\ suffix_result.kind = "ok"
             /\ (image.suffix = 0 /\ image.cut < 0) => suffix_result.value = WrittenSuffix

C5_Witness ==
    /\ suffix_result.kind = "ok"
    /\ suffix_result.value = WrittenSuffix
    /\ image.kind = "dfuse" /\ Len(image.layout) > 0

\* C6: parse_prefix fails with TooSmall below 27 bytes whatever the first 5
\* bytes are; from 27 bytes on it returns "absent" when they are not "DfuSe",
\* and the prefix record otherwise.
C6_ParsePrefix ==
    prefix_result.kind # "none" =>
        IF Length < 27 THEN prefix_result = Raise(TooSmall, NoOffset)
        ELSE IF ~StartsWithDfuSe THEN prefix_result = Absent
        ELSE /\ prefix_result.kind = "ok"
             /\ prefix_result.value.szSignature = DfuSeSignature
             /\ prefix_result.value.bVersion = dfu_data[6]
             /\ prefix_result.value.bTargets = dfu_data[11]
             /\ image.kind = "dfuse" =>
                    /\ prefix_result.value.bTargets = Len(image.layout)
                    /\ prefix_result.value.dwImageSize = EndOffset(image.layout)

C6_Witness ==
    /\ Length >= 27 /\ ~StartsWithDfuSe
    /\ prefix_result = Absent

\* C7 as stated: extract on a buffer that starts with "DfuSe" and is shorter
\* than the 27 bytes the prefix decoder requires returns an empty sequence.
C7_ShortDfuSeIsEmpty ==
    (StartsWithDfuSe /\ ~HasPrefixRoom) => \A r \in Results : r = Ok(<< >>)

\* C7 as amended: on such a buffer extract fails with TooSmall; and for a
\* buffer that starts with "DfuSe" the prefix decoder never answers "absent",
\* so an empty result comes only from a walk over a decoded prefix.
C7_ShortDfuSeFails ==
    StartsWithDfuSe =>
        /\ prefix_result.kind # "absent"
        /\ \A r \in Results :
              /\ ~HasPrefixRoom => r = Raise(TooSmall, NoOffset)
              /\ r = Ok(<< >>) => HasPrefixRoom

C7_Witness ==
    /\ StartsWithDfuSe /\ ~HasPrefixRoom
    /\ Len(extract_results) > 0
    /\ extract_results[1] = Raise(TooSmall, NoOffset)

\* C8: two calls of extract on the same parser give the same outcome, whatever
\* parse_suffix and parse_prefix calls are made around them, and no call
\* changes the buffer or the parser's stored list.
C8_Idempotent ==
    /\ \A r1, r2 \in Results : r1 = r2
    /\ \A i \in 1..Len(extract_results) : extract_results[i] = extract_results[1]
    /\ targets = << >>
    /\ dfu_data = ImageBytes(image)

C8_Witness ==
    /\ mode = "api"
    /\ Len(extract_results) = 2
    /\ extract_results[1].kind = "ok" /\ Len(extract_results[1].value) >= 2
    /\ suffix_result.kind # "none" /\ prefix_result.kind # "none"

\* A parsing step of the run has failed.
ParsingFailed ==
    \/ suffix_result.kind = "error"
    \/ prefix_result.kind = "error"
    \/ \E r \in Results : r.kind = "error"

\* C9: in the command-line run, a failed parsing step ends the run with a
\* non-zero status and no file written; files are written only after extract
\* has returned the whole list.
C9_NoOutputOnParseError ==
    mode = "cli" =>
        /\ ParsingFailed => (pc = "done" /\ exit_status > 0 /\ files = << >>)
        /\ files # << >> =>
              /\ Len(extract_results) = 1 /\ extract_results[1].kind = "ok"
              /\ Len(files) <= Len(extract_results[1].value)
              /\ \A i \in 1..Len(files) :
                    files[i].data = extract_results[1].value[i].payload

C9_Witness ==
    /\ mode = "cli" /\ pc = "done" /\ exit_status = 1 /\ files = << >>
    /\ Len(image.layout) = 2 /\ Len(image.layout[1]) > 0
    /\ Len(extract_results) = 1 /\ extract_results[1].kind = "error"
    /\ image.cut > TargetOffset(image.layout, 2)

\* C10: on the plain path extract never fails and never looks at the suffix:
\* for any buffer that does not start with "DfuSe", of any length and with any
\* trailing bytes, it returns one pair, address 0 and the bytes before the last
\* 16, which is empty up to length 16.
C10_PlainNeverFails ==
    ~StartsWithDfuSe =>
        \A r \in Results :
            /\ r.kind = "ok"
            /\ Len(r.value) = 1
            /\ r.value[1].address = 0
            /\ r.value[1].payload = LeadingBytes
            /\ Length <= 16 => r.value[1].payload = << >>

C10_Witness ==
    /\ ~StartsWithDfuSe
    /\ Length > 0 /\ Length < 16
    /\ suffix_result = Raise(TooSmall, NoOffset)
    /\ Len(extract_results) > 0
    /\ extract_results[1] = Ok(<< Pair(0, << >>) >>)

=============================================================================
